---- MODULE Spec2Model ----
(***************************************************************************)
(* Model of processor.py: the fetch / validate / transform / persist       *)
(* pipeline of process_products, process_users and process_posts, the      *)
(* storage functions get_db_connection, init_db_table and save_data_to_db, *)
(* and the --clean start of the main block.                                *)
(*                                                                         *)
(* One behaviour follows the processor of one entity (ent) through         *)
(* repeated calls from main against one database file.  The three          *)
(* processors touch only their own table, so the other two are left out    *)
(* of the behaviour.                                                       *)
(*                                                                         *)
(* Python and SQLite values are tagged records: JSON null / None, numbers, *)
(* strings, arrays and objects.  The tuples built for the database keep    *)
(* the identifier, one scalar column (title / username) and, for posts,    *)
(* the reactions column; the remaining columns are projected with          *)
(* dict.get exactly like the scalar column and are left out.               *)
(***************************************************************************)
EXTENDS Integers, Sequences, FiniteSets, TLC

\* ---------------------------------------------------------------- bounds
MaxLen == 2       \* longest array the upstream API returns
MaxId == 2        \* external identifiers 1..MaxId
MaxCalls == 2     \* calls of the processor in one behaviour

\* SQLite INTEGER is a signed 64-bit value; binding a larger Python int
\* raises OverflowError.  The width is scaled to fit TLC's integers.
SqliteIntMax == 2^30 - 1
HugeInt == SqliteIntMax + 1

Entities == {"products", "users", "posts"}

\* the array field of the response and the table have the entity's name
ArrayField(e) == e
TableName(e) == e
NameField(e) == IF e = "users" THEN "username" ELSE "title"

\* ------------------------------------------------------------ JSON values
JNull == [k |-> "null"]
JNum(n) == [k |-> "num", n |-> n]
JStr(s) == [k |-> "str", s |-> s]
JArr(q) == [k |-> "arr", items |-> q]
JObj(f) == [k |-> "obj", fields |-> f]
NoFields == [x \in {} |-> JNull]

\* bool(v) of Python
Truthy(v) ==
    CASE v.k = "null" -> FALSE
      [] v.k = "num" -> v.n # 0
      [] v.k = "str" -> v.s # ""
      [] v.k = "arr" -> Len(v.items) > 0
      [] v.k = "obj" -> DOMAIN v.fields # {}

\* `sub in s` on strings: no string of the model properly contains another
StrContains(s, sub) == sub = "" \/ s = sub

\* `key in v`: "TypeError" when v is not iterable
Contains(v, key) ==
    CASE v.k = "obj" -> IF key \in DOMAIN v.fields THEN "yes" ELSE "no"
      [] v.k = "arr" -> IF \E i \in 1..Len(v.items) : v.items[i] = JStr(key)
                        THEN "yes" ELSE "no"
      [] v.k = "str" -> IF StrContains(v.s, key) THEN "yes" ELSE "no"
      [] OTHER -> "TypeError"

\* dict.get(key, default)
GetDefault(o, key, default) ==
    IF key \in DOMAIN o.fields THEN o.fields[key] ELSE default

\* dict.get(key)
Get(o, key) == GetDefault(o, key, JNull)

RECURSIVE SetToSeq(_)
SetToSeq(S) ==
    IF S = {} THEN <<>>
    ELSE LET x == CHOOSE y \in S : TRUE IN <<x>> \o SetToSeq(S \ {x})

\* the items a for loop over v visits (v is truthy and has a length)
IterItems(v) ==
    CASE v.k = "arr" -> v.items
      [] v.k = "obj" -> LET ks == SetToSeq(DOMAIN v.fields)
                        IN [i \in 1..Len(ks) |-> JStr(ks[i])]
      [] v.k = "str" -> <<JStr(v.s)>>

\* ------------------------------------------------ stage 2: response shape
\* processor.py 203-208: "warn" (log a warning and return), "TypeError"
\* (the expression raises) or "pass"
ValidateResponse(e, resp) ==
    IF ~Truthy(resp) THEN "warn"
    ELSE IF Contains(resp, ArrayField(e)) = "TypeError" THEN "TypeError"
    ELSE IF Contains(resp, ArrayField(e)) = "no" THEN "warn"
    ELSE IF resp.k # "obj" THEN "TypeError"
    ELSE IF ~Truthy(resp.fields[ArrayField(e)]) THEN "warn"
    ELSE IF resp.fields[ArrayField(e)].k = "num" THEN "TypeError"
    ELSE "pass"

\* ------------------------------------------------------ stage 3: transform
RECURSIVE SumFrom(_, _, _)
SumFrom(vals, i, acc) ==
    IF i > Len(vals) THEN [exc |-> "none", val |-> JNum(acc)]
    ELSE IF vals[i].k # "num" THEN [exc |-> "TypeError", val |-> JNull]
    ELSE SumFrom(vals, i + 1, acc + vals[i].n)

\* sum(reactions.values())
SumValues(o) ==
    LET ks == SetToSeq(DOMAIN o.fields)
    IN SumFrom([i \in 1..Len(ks) |-> o.fields[ks[i]]], 1, 0)

\* a faulty normalisation: only the likes of a breakdown object are kept
ReactionsLikesOnly(post) ==
    LET reactions == GetDefault(post, "reactions", JNum(0))
    IN IF reactions.k = "obj"
       THEN [exc |-> "none", val |-> GetDefault(reactions, "likes", JNum(0))]
       ELSE [exc |-> "none", val |-> reactions]

\* processor.py 480-483: a breakdown object becomes the sum of its values
ReactionsOf(post) ==
    LET reactions == GetDefault(post, "reactions", JNum(0))
    IN IF reactions.k = "obj" THEN SumValues(reactions)
       ELSE [exc |-> "none", val |-> reactions]

\* the value tuple of one record that has an identifier
TupleOf(e, rec) ==
    IF e = "posts"
    THEN LET r == ReactionsOf(rec)
         IN [exc |-> r.exc,
             tuple |-> <<Get(rec, "id"), Get(rec, NameField(e)), r.val>>]
    ELSE [exc |-> "none", tuple |-> <<Get(rec, "id"), Get(rec, NameField(e))>>]

\* a faulty loop body: a record without identifier is not skipped but
\* projected like the others, with None as its identifier
RecordStepNoSkip(e, item) ==
    IF Contains(item, "id") = "TypeError"
    THEN [exc |-> "TypeError", skip |-> FALSE, tuple |-> <<>>]
    ELSE IF item.k # "obj"
    THEN [exc |-> "AttributeError", skip |-> FALSE, tuple |-> <<>>]
    ELSE LET t == TupleOf(e, item)
         IN [exc |-> t.exc, skip |-> FALSE, tuple |-> t.tuple]

\* one iteration of the transform loop: the record is skipped, appended or
\* the loop raises
RecordStep(e, item) ==
    IF Contains(item, "id") = "TypeError"
    THEN [exc |-> "TypeError", skip |-> FALSE, tuple |-> <<>>]
    ELSE IF item.k # "obj"
    THEN [exc |-> "AttributeError", skip |-> FALSE, tuple |-> <<>>]
    ELSE IF Contains(item, "id") = "no"
    THEN [exc |-> "none", skip |-> TRUE, tuple |-> <<>>]
    ELSE LET t == TupleOf(e, item)
         IN [exc |-> t.exc, skip |-> FALSE, tuple |-> t.tuple]

RECURSIVE TransformFrom(_, _, _, _, _)
TransformFrom(e, items, i, data, skipped) ==
    IF i > Len(items) THEN [exc |-> "none", data |-> data, skipped |-> skipped]
    ELSE LET s == RecordStep(e, items[i])
         IN IF s.exc # "none"
            THEN [exc |-> s.exc, data |-> data, skipped |-> skipped]
            ELSE IF s.skip
            THEN TransformFrom(e, items, i + 1, data, skipped + 1)
            ELSE TransformFrom(e, items, i + 1, Append(data, s.tuple), skipped)

\* the loop building data_to_save
Transform(e, list) == TransformFrom(e, IterItems(list), 1, <<>>, 0)

\* ------------------------------------------------------------- storage
\* a table: whether it exists in the database file, and its rows; a row is
\* the value tuple with the INTEGER PRIMARY KEY api_id first
NoTable == [exists |-> FALSE, rows |-> {}]
EmptyTable == [exists |-> TRUE, rows |-> {}]

\* the connection's open transaction: the table's rows as the connection
\* sees them before commit
NoTx == [active |-> FALSE, rows |-> {}]

PKs(rows) == {r[1].n : r \in rows}

MaxPK(rows) ==
    IF rows = {} THEN 0
    ELSE CHOOSE m \in PKs(rows) : \A x \in PKs(rows) : x <= m

\* a faulty init_db_table: CREATE TABLE without the existence check, which
\* SQLite refuses for a table that exists
InitDbTableNoCheck(tbl, createFails) ==
    IF tbl.exists \/ createFails
    THEN [ok |-> FALSE, tbl |-> tbl, created |-> FALSE]
    ELSE [ok |-> TRUE, tbl |-> EmptyTable, created |-> TRUE]

\* a faulty init_db_table: it reports success without creating the table
InitDbTableNoCreate(tbl, createFails) ==
    [ok |-> TRUE, tbl |-> tbl, created |-> FALSE]

\* processor.py 108-139: the table exists already, or the CREATE statement
\* runs; createFails is the storage refusing the statement (sqlite3.Error)
InitDbTable(tbl, createFails) ==
    IF tbl.exists THEN [ok |-> TRUE, tbl |-> tbl, created |-> FALSE]
    ELSE IF createFails THEN [ok |-> FALSE, tbl |-> tbl, created |-> FALSE]
    ELSE [ok |-> TRUE, tbl |-> EmptyTable, created |-> TRUE]

\* sqlite3 binding the parameters of one tuple, in order: a list or dict
\* is not supported (ProgrammingError, a sqlite3.Error), an int beyond 64
\* bits raises OverflowError, which is no sqlite3.Error
BindError(tuple) ==
    LET bad == {i \in 1..Len(tuple) :
                   \/ tuple[i].k \in {"arr", "obj"}
                   \/ tuple[i].k = "num" /\ tuple[i].n > SqliteIntMax}
    IN IF bad = {} THEN "none"
       ELSE LET i == CHOOSE j \in bad : \A x \in bad : j <= x
            IN IF tuple[i].k = "num" THEN "OverflowError" ELSE "sqlite3.Error"

\* the key SQLite gives the row: api_id INTEGER PRIMARY KEY is the rowid,
\* NULL takes the next free rowid, text that is no integer is a datatype
\* mismatch (IntegrityError, a sqlite3.Error)
ResolvePK(rows, idv) ==
    CASE idv.k = "null" -> [err |-> FALSE, pk |-> MaxPK(rows) + 1]
      [] idv.k = "num" -> [err |-> FALSE, pk |-> idv.n]
      [] OTHER -> [err |-> TRUE, pk |-> 0]

\* a faulty statement: INSERT OR REPLACE overwrites the row of the key
InsertOrReplace(rows, row) ==
    {r \in rows : r[1].n # row[1].n} \cup {row}

\* INSERT OR IGNORE of one row whose key is resolved
InsertOrIgnore(rows, row) ==
    IF row[1].n \in PKs(rows) THEN rows ELSE rows \cup {row}

\* a faulty count: every tuple of the batch is counted
ChangesCountsIgnored(rows, row) == 1

\* sqlite3_changes() after that statement, which cursor.rowcount sums
Changes(rows, row) == IF row[1].n \in PKs(rows) THEN 0 ELSE 1

RECURSIVE ExecFrom(_, _, _, _)
ExecFrom(rows, data, i, count) ==
    IF i > Len(data) THEN [exc |-> "none", rows |-> rows, rowcount |-> count]
    ELSE IF BindError(data[i]) # "none"
    THEN [exc |-> BindError(data[i]), rows |-> rows, rowcount |-> count]
    ELSE LET p == ResolvePK(rows, data[i][1])
             row == [data[i] EXCEPT ![1] = JNum(p.pk)]
         IN IF p.err
            THEN [exc |-> "sqlite3.Error", rows |-> rows, rowcount |-> count]
            ELSE ExecFrom(InsertOrIgnore(rows, row), data, i + 1,
                          count + Changes(rows, row))

\* cursor.executemany(sql, data) on the rows the connection sees
ExecuteMany(rows, data) == ExecFrom(rows, data, 1, 0)

\* a faulty except branch: the partial batch is committed
AfterSqliteErrorCommit(committed, pending, partial) ==
    [exc |-> "sqlite3.Error", ret |-> 0, rows |-> pending, tx |-> NoTx,
     partial |-> partial]

\* the except branch of save_data_to_db: conn.rollback(), return 0
AfterSqliteError(committed, pending, partial) ==
    [exc |-> "sqlite3.Error", ret |-> 0, rows |-> committed, tx |-> NoTx,
     partial |-> partial]

\* processor.py 142-183 on a table whose committed rows are `committed`;
\* commitFails is the storage refusing the commit (sqlite3.Error).
\* exc: "none" (ret is returned), "sqlite3.Error" (caught, 0 returned) or
\* "OverflowError" (propagates, the transaction stays open);
\* partial: rows the call had written when it failed
SaveData(committed, data, commitFails) ==
    IF data = <<>>
    THEN [exc |-> "none", ret |-> 0, rows |-> committed, tx |-> NoTx,
          partial |-> 0]
    ELSE LET x == ExecuteMany(committed, data)
         IN IF x.exc = "OverflowError"
            THEN [exc |-> "OverflowError", ret |-> 0, rows |-> committed,
                  tx |-> [active |-> TRUE, rows |-> x.rows],
                  partial |-> x.rowcount]
            ELSE IF x.exc = "sqlite3.Error" \/ commitFails
            THEN AfterSqliteError(committed, x.rows, x.rowcount)
            ELSE [exc |-> "none", ret |-> x.rowcount, rows |-> x.rows,
                  tx |-> NoTx, partial |-> 0]

\* a faulty processor without the finally clause: the connection is
\* closed at the end of the try block only
CloseOnNormalExit(c, how) == IF how = "normal" THEN "closed" ELSE c

\* the finally clause of a processor: conn.close() on every way out of the
\* try block ("normal", "return" from inside it, "raise")
CloseOnExit(c, how) == "closed"

\* ------------------------------------------------- upstream responses
Rec(e, idv, name) == JObj(("id" :> idv) @@ (NameField(e) :> JStr(name)))
NoIdRec(e, name) == JObj(NameField(e) :> JStr(name))
WithReactions(rec, r) == JObj(("reactions" :> r) @@ rec.fields)

Likes(n, m) == JObj(("likes" :> JNum(n)) @@ ("dislikes" :> JNum(m)))

\* the records an array of products or users may hold: identifiers
\* 1..MaxId, a changed record for identifier 1, a null, a textual and an
\* oversized identifier, a record without identifier, and an item that is
\* no object
BaseRecords(e) ==
    {Rec(e, JNum(i), "a") : i \in 1..MaxId}
    \cup {Rec(e, JNum(1), "b"), Rec(e, JNull, "a"), Rec(e, JStr("x"), "a"),
          Rec(e, JNum(HugeInt), "a"), NoIdRec(e, "a"), JNum(5)}

\* the same records for posts, with reactions as a breakdown object, as a
\* number, absent, empty, and with a value that is no number
PostRecords ==
    {Rec("posts", JNum(i), "a") : i \in 2..MaxId}
    \cup {WithReactions(Rec("posts", JNum(1), "a"), Likes(5, 2)),
          WithReactions(Rec("posts", JNum(1), "b"), JNum(7)),
          WithReactions(Rec("posts", JNull, "a"), JObj(NoFields)),
          WithReactions(Rec("posts", JNum(MaxId), "b"),
                        JObj("likes" :> JStr("x"))),
          WithReactions(NoIdRec("posts", "a"), Likes(5, 2)),
          Rec("posts", JStr("x"), "a"), Rec("posts", JNum(HugeInt), "a"),
          JNum(5)}

Records(e) == IF e = "posts" THEN PostRecords ELSE BaseRecords(e)

Lists(e) == UNION {[1..n -> Records(e)] : n \in 1..MaxLen}

\* responses that are no object holding a non-empty array
Shapes(e) ==
    {JNull, JNum(5), JStr("x"), JStr(ArrayField(e)),
     JArr(<<JStr("x")>>), JArr(<<JStr(ArrayField(e))>>),
     JObj(NoFields), JObj("total" :> JNum(0)),
     JObj(ArrayField(e) :> JArr(<<>>)), JObj(ArrayField(e) :> JNum(5)),
     JObj(ArrayField(e) :> JStr("x")),
     JObj(ArrayField(e) :> Rec(e, JNum(1), "a"))}

\* a batch in which a record with a null id precedes two records that
\* share an identifier
DupLists(e) ==
    {<<n, b, a>> :
        n \in {r \in Records(e) : /\ r.k = "obj" /\ Contains(r, "id") = "yes"
                                  /\ Get(r, "id") = JNull},
        b \in {r \in Records(e) : /\ r.k = "obj" /\ Get(r, "id") = JNum(1)
                                  /\ Get(r, NameField(e)) = JStr("b")},
        a \in {r \in Records(e) : /\ r.k = "obj" /\ Get(r, "id") = JNum(1)
                                  /\ Get(r, NameField(e)) = JStr("a")}}

Responses(e) ==
    Shapes(e)
    \cup {JObj(ArrayField(e) :> JArr(q)) : q \in Lists(e) \cup DupLists(e)}

\* the API's content is not fixed until the next request reads it
Unknown == [k |-> "unknown"]

\* ------------------------------------------------------------------ state
VARIABLES
    ent,            \* the entity whose processor main calls
    upstream,       \* what the API answers for ent, or Unknown
    fileExists,     \* the database file DB_NAME is on disk
    db,             \* committed tables of the database file, by name
    console,        \* what main printed in its --clean step
    creates,        \* CREATE statements executed on the database file
    calls,          \* calls of the processor that have returned to main
    pc,             \* position of the running call, "idle" between calls
    api_response,   \* locals of the processor
    records_list,
    conn,           \* "none", "open" or "closed"
    tx,             \* the connection's open transaction
    data_to_save,
    saved_count,
    outcome,        \* how the call ends: "returned" or "raised"
    exc,            \* the exception a raising call ends with
    log,            \* the lines the call logged, as tags
    before,         \* the table's rows when the call began
    opened,         \* connections the call opened
    created,        \* the call executed the CREATE statement
    faulted,        \* the network or the storage failed during the call
    save,           \* how save_data_to_db ended in the call
    prev,           \* the table after the previous call, while the API's
                    \* content is the one that call fetched
    run,            \* main's pipeline over the three processors
    view            \* the inspector process (view_db.py)

vars ==
    <<ent, upstream, fileExists, db, console, creates, calls, pc, api_response,
      records_list, conn, tx, data_to_save, saved_count, outcome, exc, log,
      before, opened, created, faulted, save, prev, run, view>>

main == <<ent, upstream, fileExists, db, console, creates, calls, prev>>
locals ==
    <<api_response, records_list, conn, tx, data_to_save, saved_count,
      outcome, exc, log, before, opened, created, faulted, save>>

NoPrev == [valid |-> FALSE, rows |-> {}]
NoSave == [called |-> FALSE, exc |-> "none", partial |-> 0]

\* main's pipeline (530-542): the processors it has called, in order, and
\* how the process stands: "off" while the pipeline is not running,
\* "running", "exited" after line 542, "crashed" when an exception left main
NoRun == [status |-> "off", started |-> <<>>, finished |-> <<>>]

\* the inspector before it is started
NoView ==
    [pc |-> "off", table_name |-> "", given |-> FALSE, tables |-> <<>>,
     conn |-> "none", out |-> <<>>, exit |-> -1, faulted |-> FALSE]

LocalsReset ==
    /\ api_response = JNull
    /\ records_list = JNull
    /\ conn = "none"
    /\ tx = NoTx
    /\ data_to_save = <<>>
    /\ saved_count = 0
    /\ outcome = "none"
    /\ exc = "none"
    /\ log = <<>>
    /\ before = {}
    /\ opened = 0
    /\ created = FALSE
    /\ faulted = FALSE
    /\ save = NoSave

Init ==
    /\ ent \in Entities
    /\ upstream = Unknown
    /\ fileExists = FALSE
    /\ db = [t \in Entities |-> NoTable]
    /\ console = ""
    /\ creates = 0
    /\ calls = 0
    /\ pc = "idle"
    /\ prev = NoPrev
    /\ LocalsReset
    /\ run = NoRun
    /\ view = NoView

\* ------------------------------------------------------------- main block
\* processor.py 523-528: main started with --clean while the file exists;
\* os.remove deletes the database file or raises OSError
MainClean ==
    /\ pc = "idle" /\ calls < MaxCalls /\ console = ""
    /\ fileExists
    /\ \E removed \in BOOLEAN :
         IF removed
         THEN /\ fileExists' = FALSE
              /\ db' = [t \in Entities |-> NoTable]
              /\ creates' = 0
              /\ console' = "removed"
              /\ prev' = NoPrev
         ELSE /\ console' = "remove_failed"
              /\ UNCHANGED <<fileExists, db, creates, prev>>
    /\ UNCHANGED <<ent, upstream, calls, pc>>
    /\ UNCHANGED locals
    /\ UNCHANGED <<view, run>>

\* the API's content changes between two runs
UpstreamChange ==
    /\ pc = "idle" /\ calls < MaxCalls
    /\ upstream # Unknown
    /\ upstream' = Unknown
    /\ prev' = NoPrev
    /\ UNCHANGED <<ent, fileExists, db, console, creates, calls, pc>>
    /\ UNCHANGED locals
    /\ UNCHANGED <<view, run>>

\* processor.py 533 / 536 / 539: main calls the processor
Start ==
    /\ pc = "idle" /\ calls < MaxCalls
    /\ pc' = "fetch"
    /\ console' = ""
    /\ before' = db[TableName(ent)].rows
    /\ log' = <<"info_start">>
    /\ UNCHANGED <<ent, upstream, fileExists, db, creates, calls, prev>>
    /\ UNCHANGED <<api_response, records_list, conn, tx, data_to_save,
                   saved_count, outcome, exc, opened, created, faulted, save>>
    /\ UNCHANGED <<view, run>>

\* ------------------------------------------------------------ a processor
\* stage 1, fetch_api_data (43-73): the parsed body, or None after a
\* timeout, a network error or a body that is no JSON
Fetch ==
    /\ pc = "fetch"
    /\ \E ok \in BOOLEAN :
         IF ok
         THEN \E r \in (IF upstream = Unknown THEN Responses(ent) ELSE {upstream}) :
                 /\ upstream' = r
                 /\ api_response' = r
                 /\ log' = Append(log, "info_api_ok")
                 /\ faulted' = faulted
         ELSE /\ upstream' = upstream
              /\ api_response' = JNull
              /\ log' = Append(log, "error_fetch")
              /\ faulted' = TRUE
    /\ pc' = "validate"
    /\ UNCHANGED <<ent, fileExists, db, console, creates, calls, prev>>
    /\ UNCHANGED <<records_list, conn, tx, data_to_save, saved_count, outcome,
                   exc, before, opened, created, save>>
    /\ UNCHANGED <<view, run>>

\* stage 2 (203-208): the shape check and len(products_list)
Validate ==
    /\ pc = "validate"
    /\ LET v == ValidateResponse(ent, api_response)
       IN CASE v = "warn" ->
                 /\ pc' = "done" /\ outcome' = "returned" /\ exc' = exc
                 /\ log' = Append(log, "warning_no_data")
                 /\ records_list' = records_list
            [] v = "pass" ->
                 /\ pc' = "connect" /\ outcome' = outcome /\ exc' = exc
                 /\ log' = Append(log, "info_found")
                 /\ records_list' = api_response.fields[ArrayField(ent)]
            [] OTHER ->
                 /\ pc' = "done" /\ outcome' = "raised" /\ exc' = v
                 /\ log' = log
                 /\ records_list' = records_list
    /\ UNCHANGED main
    /\ UNCHANGED <<api_response, conn, tx, data_to_save, saved_count, before,
                   opened, created, faulted, save>>
    /\ UNCHANGED <<view, run>>

\* get_db_connection (80-105) and 211-214: sqlite3.connect creates the
\* file; on sqlite3.Error / OSError the processor logs and returns
Connect ==
    /\ pc = "connect"
    /\ \E ok \in BOOLEAN :
         IF ok
         THEN /\ conn' = "open" /\ opened' = opened + 1
              /\ fileExists' = TRUE
              /\ pc' = "init"
              /\ log' = Append(log, "info_connected")
              /\ UNCHANGED <<outcome, faulted>>
         ELSE /\ pc' = "done" /\ outcome' = "returned"
              /\ faulted' = TRUE
              /\ log' = Append(log, "error_connect")
              /\ UNCHANGED <<conn, opened, fileExists>>
    /\ UNCHANGED <<ent, upstream, db, console, creates, calls, prev>>
    /\ UNCHANGED <<api_response, records_list, tx, data_to_save, saved_count,
                   exc, before, created, save>>
    /\ UNCHANGED <<view, run>>

\* a faulty processor: the result of init_db_table is not looked at
InitTableIgnoresResult ==
    /\ pc = "init"
    /\ \E createFails \in BOOLEAN :
         LET r == InitDbTable(db[TableName(ent)], createFails)
         IN /\ db' = [db EXCEPT ![TableName(ent)] = r.tbl]
            /\ created' = r.created
            /\ creates' = creates + (IF r.created THEN 1 ELSE 0)
            /\ faulted' = (faulted \/ ~r.ok)
            /\ pc' = "transform" /\ outcome' = outcome
            /\ log' = Append(log, IF r.created THEN "info_created"
                                  ELSE IF r.ok THEN "info_exists"
                                  ELSE "error_init")
    /\ UNCHANGED <<ent, upstream, fileExists, console, calls, prev>>
    /\ UNCHANGED <<api_response, records_list, conn, tx, data_to_save,
                   saved_count, exc, before, opened, save>>
    /\ UNCHANGED <<view, run>>

\* init_db_table (108-139) and 239-241
InitTable ==
    /\ pc = "init"
    /\ \E createFails \in BOOLEAN :
         LET r == InitDbTable(db[TableName(ent)], createFails)
         IN /\ db' = [db EXCEPT ![TableName(ent)] = r.tbl]
            /\ created' = r.created
            /\ creates' = creates + (IF r.created THEN 1 ELSE 0)
            /\ faulted' = (faulted \/ ~r.ok)
            /\ IF r.ok
               THEN /\ pc' = "transform" /\ outcome' = outcome
                    /\ log' = Append(log, IF r.created THEN "info_created"
                                                       ELSE "info_exists")
               ELSE /\ pc' = "finally" /\ outcome' = "returned"
                    /\ log' = Append(log, "error_init")
    /\ UNCHANGED <<ent, upstream, fileExists, console, calls, prev>>
    /\ UNCHANGED <<api_response, records_list, conn, tx, data_to_save,
                   saved_count, exc, before, opened, save>>
    /\ UNCHANGED <<view, run>>

\* stage 3 (244-265): the loop over the fetched list
TransformStep ==
    /\ pc = "transform"
    /\ LET t == Transform(ent, records_list)
       IN /\ log' = log \o [i \in 1..t.skipped |-> "warning_no_id"]
          /\ IF t.exc = "none"
             THEN /\ data_to_save' = t.data
                  /\ pc' = "save"
                  /\ UNCHANGED <<outcome, exc>>
             ELSE /\ data_to_save' = data_to_save
                  /\ pc' = "finally" /\ outcome' = "raised" /\ exc' = t.exc
    /\ UNCHANGED main
    /\ UNCHANGED <<api_response, records_list, conn, tx, saved_count, before,
                   opened, created, faulted, save>>
    /\ UNCHANGED <<view, run>>

\* stage 4, save_data_to_db (142-183) and 268-276
Save ==
    /\ pc = "save"
    /\ \E commitFails \in BOOLEAN :
         LET r == SaveData(db[TableName(ent)].rows, data_to_save, commitFails)
         IN /\ db' = [db EXCEPT ![TableName(ent)].rows = r.rows]
            /\ tx' = r.tx
            /\ save' = [called |-> TRUE, exc |-> r.exc, partial |-> r.partial]
            /\ faulted' = (faulted \/ (commitFails /\ r.exc = "sqlite3.Error"))
            /\ IF r.exc = "OverflowError"
               THEN /\ outcome' = "raised" /\ exc' = r.exc
                    /\ saved_count' = saved_count
                    /\ log' = log
               ELSE /\ outcome' = "returned" /\ exc' = exc
                    /\ saved_count' = r.ret
                    /\ log' = log \o
                         <<IF data_to_save = <<>> THEN "info_nothing_to_save"
                           ELSE IF r.exc # "none" THEN "error_save"
                           ELSE IF r.ret > 0 THEN "info_saved"
                           ELSE "info_none_added",
                           IF r.ret > 0 THEN "info_finished_added"
                           ELSE "info_finished_none">>
    /\ pc' = "finally"
    /\ UNCHANGED <<ent, upstream, fileExists, console, creates, calls, prev>>
    /\ UNCHANGED <<api_response, records_list, conn, data_to_save, before,
                   opened, created>>
    /\ UNCHANGED <<view, run>>

\* the finally clause (278-281): conn.close() discards what is uncommitted
Finally ==
    /\ pc = "finally"
    /\ conn' = CloseOnExit(conn, IF outcome = "raised" THEN "raise"
                                 ELSE IF save.called THEN "normal"
                                 ELSE "return")
    /\ tx' = IF conn' = "closed" THEN NoTx ELSE tx
    /\ log' = Append(log, "info_closed")
    /\ pc' = "done"
    /\ UNCHANGED main
    /\ UNCHANGED <<api_response, records_list, data_to_save, saved_count,
                   outcome, exc, before, opened, created, faulted, save>>
    /\ UNCHANGED <<view, run>>

\* the call is over: main goes on, or ends with the exception
Leave ==
    /\ pc = "done"
    /\ pc' = "idle"
    /\ calls' = calls + 1
    /\ prev' = IF outcome = "returned" /\ ~faulted
               THEN [valid |-> TRUE, rows |-> db[TableName(ent)].rows]
               ELSE NoPrev
    /\ api_response' = JNull
    /\ records_list' = JNull
    /\ conn' = "none"
    /\ tx' = NoTx
    /\ data_to_save' = <<>>
    /\ saved_count' = 0
    /\ outcome' = "none"
    /\ exc' = "none"
    /\ log' = <<>>
    /\ before' = {}
    /\ opened' = 0
    /\ created' = FALSE
    /\ faulted' = FALSE
    /\ save' = NoSave
    /\ UNCHANGED <<ent, upstream, fileExists, db, console, creates>>
    /\ UNCHANGED <<view, run>>

Next ==
    \/ MainClean
    \/ UpstreamChange
    \/ Start
    \/ Fetch
    \/ Validate
    \/ Connect
    \/ InitTable
    \/ TransformStep
    \/ Save
    \/ Finally
    \/ Leave

Spec == Init /\ [][Next]_vars

\* =========================================================== the inspector
\* view_db.py: a separate process that reads the database file
SampleLimit == 10    \* print_table_data's default limit

\* sqlite_master lists the tables in the order main created them
MasterOrder == <<"products", "users", "posts">>

\* values --table is given on the command line
TableArgs == {"", "products", "users", "posts", "nonexistent"}

TableExists(name) == name \in DOMAIN db /\ db[name].exists

\* cursor.fetchall() of SELECT name FROM sqlite_master WHERE type='table'
RECURSIVE MasterFrom(_)
MasterFrom(i) ==
    IF i > Len(MasterOrder) THEN <<>>
    ELSE (IF TableExists(MasterOrder[i]) THEN <<MasterOrder[i]>> ELSE <<>>)
         \o MasterFrom(i + 1)

MasterTables == MasterFrom(1)

\* the columns of the modelled part of a table
Columns(name) ==
    <<"api_id", NameField(name)>>
    \o (IF name = "posts" THEN <<"reactions">> ELSE <<>>)

\* format_value (21-71): NULL for None, str(value) for the modelled columns
FormatValue(key, value) ==
    IF value = JNull THEN "NULL"
    ELSE IF value.k = "num" THEN ToString(value.n)
    ELSE value.s

\* SELECT * FROM t LIMIT n: the rows by ascending rowid
RECURSIVE SelectFrom(_, _)
SelectFrom(rows, n) ==
    IF rows = {} \/ n = 0 THEN <<>>
    ELSE LET r == CHOOSE x \in rows : \A y \in rows : x[1].n <= y[1].n
         IN <<r>> \o SelectFrom(rows \ {r}, n - 1)

Line(t, name, data) == [t |-> t, name |-> name, data |-> data]

\* print_table_data (100-136)
RECURSIVE RowLines(_, _, _)
RowLines(name, rows, i) ==
    IF i > Len(rows) THEN <<>>
    ELSE <<Line("row", name,
                [c \in 1..Len(Columns(name)) |->
                    FormatValue(Columns(name)[c], rows[i][c])])>>
         \o RowLines(name, rows, i + 1)

PrintTableData(name) ==
    LET rows == SelectFrom(db[name].rows, SampleLimit)
    IN <<Line("schema", name, Columns(name))>>
       \o (IF rows = <<>> THEN <<Line("info_table_empty", name, <<>>)>>
           ELSE <<Line("data_header", name, <<ToString(Len(rows))>>)>>
                \o RowLines(name, rows, 1))

\* get_table_info (74-97): the row count
RowCount(name) == Cardinality(db[name].rows)

\* table_infos.sort(key=row_count, reverse=True) (197): a stable sort
InsertByCount(sorted, name) ==
    LET k == CHOOSE j \in 0..Len(sorted) :
                /\ \A i \in 1..j : RowCount(sorted[i]) >= RowCount(name)
                /\ j < Len(sorted) => RowCount(sorted[j + 1]) < RowCount(name)
    IN SubSeq(sorted, 1, k) \o <<name>> \o SubSeq(sorted, k + 1, Len(sorted))

RECURSIVE SortFrom(_, _, _)
SortFrom(names, i, sorted) ==
    IF i > Len(names) THEN sorted
    ELSE SortFrom(names, i + 1, InsertByCount(sorted, names[i]))

SortByCount(names) == SortFrom(names, 1, <<>>)

RECURSIVE AllTablesLines(_, _)
AllTablesLines(names, i) ==
    IF i > Len(names) THEN <<>>
    ELSE <<Line("table_header", names[i], <<ToString(RowCount(names[i]))>>)>>
         \o PrintTableData(names[i])
         \o AllTablesLines(names, i + 1)

\* view_db.py 216-224 and 147-153: the arguments are parsed and the file
\* is looked for
ViewStart ==
    /\ view.pc = "off"
    /\ \E given \in BOOLEAN : \E name \in TableArgs :
         /\ given \/ name = ""
         /\ IF fileExists
            THEN view' = [view EXCEPT !.pc = "connect", !.given = given,
                                      !.table_name = name]
            ELSE view' = [view EXCEPT !.pc = "returned", !.given = given,
                                      !.table_name = name,
                                      !.out = <<Line("error_db_not_found", "", <<>>)>>]
    /\ UNCHANGED <<main, run, pc>>
    /\ UNCHANGED locals

\* 155-167 and 212-213: connect and read the list of tables; a
\* sqlite3.Error is printed; a database without tables ends the listing
ViewConnect ==
    /\ view.pc = "connect"
    /\ \E ok \in BOOLEAN :
         IF ~ok
         THEN view' = [view EXCEPT !.pc = "returned", !.faulted = TRUE,
                                   !.out = <<Line("error_database", "", <<>>)>>]
         ELSE IF MasterTables = <<>>
         THEN view' = [view EXCEPT !.pc = "returned", !.conn = "open",
                                   !.out = <<Line("info_no_tables", "", <<>>)>>]
         ELSE view' = [view EXCEPT !.pc = "dispatch", !.conn = "open",
                                   !.tables = MasterTables]
    /\ UNCHANGED <<main, run, pc>>
    /\ UNCHANGED locals

\* 170-184 and 210: one table is asked for
ViewTable ==
    /\ view.pc = "dispatch"
    /\ view.given /\ view.table_name # ""
    /\ IF ~TableExists(view.table_name)
       THEN view' = [view EXCEPT
                       !.pc = "returned",
                       !.out = <<Line("error_table_not_found",
                                      view.table_name, <<>>),
                                 Line("available_tables", "", view.tables)>>]
       ELSE view' = [view EXCEPT
                       !.pc = "returned", !.conn = "closed",
                       !.out = <<Line("table_title", view.table_name, <<>>)>>
                               \o PrintTableData(view.table_name)
                               \o <<Line("total", view.table_name,
                                         <<ToString(RowCount(view.table_name))>>)>>]
    /\ UNCHANGED <<main, run, pc>>
    /\ UNCHANGED locals

\* 186-210: no table is asked for (table_name is None or empty)
ViewAll ==
    /\ view.pc = "dispatch"
    /\ ~(view.given /\ view.table_name # "")
    /\ view' = [view EXCEPT
                  !.pc = "returned", !.conn = "closed",
                  !.out = <<Line("tables_title", "", <<>>)>>
                          \o AllTablesLines(SortByCount(view.tables), 1)]
    /\ UNCHANGED <<main, run, pc>>
    /\ UNCHANGED locals

\* view_database has returned None and the script ends: exit status 0
ViewExit ==
    /\ view.pc = "returned"
    /\ view' = [view EXCEPT !.pc = "exited", !.exit = 0,
                            !.conn = IF view.conn = "open" THEN "closed"
                                     ELSE view.conn]
    /\ UNCHANGED <<main, run, pc>>
    /\ UNCHANGED locals

\* the tables a processor run leaves behind
StoredRows(e) ==
    {SaveData({}, Transform(e, JArr(q)).data, FALSE).rows :
        q \in {l \in Lists(e) : Transform(e, JArr(l)).exc = "none"}}

StoredTables(e) ==
    {NoTable} \cup {[exists |-> TRUE, rows |-> R] : R \in StoredRows(e) \cup {{}}}

\* the inspector is started on what the processors left on disk
InitView ==
    /\ ent = "products"
    /\ upstream = Unknown
    /\ fileExists \in BOOLEAN
    /\ \E p \in StoredTables("products") :
       \E u \in StoredTables("users") :
       \E o \in StoredTables("posts") :
          db = (TableName("products") :> p) @@ (TableName("users") :> u)
               @@ (TableName("posts") :> o)
    /\ ~fileExists => \A e \in Entities : db[TableName(e)] = NoTable
    /\ console = ""
    /\ creates = 0
    /\ calls = 0
    /\ pc = "idle"
    /\ prev = NoPrev
    /\ LocalsReset
    /\ run = NoRun
    /\ view = NoView

NextView ==
    \/ ViewStart
    \/ ViewConnect
    \/ ViewTable
    \/ ViewAll
    \/ ViewExit

SpecView == InitView /\ [][NextView]_vars

\* ======================================================= the main pipeline
\* processor.py 530-542: the three processors, called one after another
PipelineOrder == <<"products", "users", "posts">>

\* main after its --clean step, on a fresh database location
InitMain ==
    /\ ent = PipelineOrder[1]
    /\ upstream = Unknown
    /\ fileExists = FALSE
    /\ db = [t \in Entities |-> NoTable]
    /\ console = ""
    /\ creates = 0
    /\ calls = 0
    /\ pc = "idle"
    /\ prev = NoPrev
    /\ LocalsReset
    /\ run = [NoRun EXCEPT !.status = "running"]
    /\ view = NoView

\* 533 / 536 / 539: main calls the next processor
MainCall ==
    /\ run.status = "running" /\ pc = "idle"
    /\ Len(run.started) < Len(PipelineOrder)
    /\ LET e == PipelineOrder[Len(run.started) + 1]
       IN /\ ent' = e
          /\ run' = [run EXCEPT !.started = Append(run.started, e)]
          /\ before' = db[TableName(e)].rows
    /\ upstream' = Unknown
    /\ pc' = "fetch"
    /\ log' = <<"info_start">>
    /\ UNCHANGED <<fileExists, db, console, creates, calls, prev, view>>
    /\ UNCHANGED <<api_response, records_list, conn, tx, data_to_save,
                   saved_count, outcome, exc, opened, created, faulted, save>>

\* the processor returns to main, or its exception leaves main: the
\* interpreter prints the traceback and the process ends
MainReturn ==
    /\ run.status = "running" /\ pc = "done"
    /\ run' = IF outcome = "raised"
              THEN [run EXCEPT !.status = "crashed"]
              ELSE [run EXCEPT !.finished = Append(run.finished, ent)]
    /\ pc' = "idle"
    /\ calls' = calls + 1
    /\ api_response' = JNull
    /\ records_list' = JNull
    /\ conn' = "none"
    /\ tx' = NoTx
    /\ data_to_save' = <<>>
    /\ saved_count' = 0
    /\ outcome' = "none"
    /\ exc' = "none"
    /\ log' = <<>>
    /\ before' = {}
    /\ opened' = 0
    /\ created' = FALSE
    /\ faulted' = FALSE
    /\ save' = NoSave
    /\ UNCHANGED <<ent, upstream, fileExists, db, console, creates, prev, view>>

\* 541-542: the closing messages; the process ends
MainExit ==
    /\ run.status = "running" /\ pc = "idle"
    /\ Len(run.started) = Len(PipelineOrder)
    /\ run' = [run EXCEPT !.status = "exited"]
    /\ console' = "finished"
    /\ UNCHANGED <<ent, upstream, fileExists, db, creates, calls, pc, prev, view>>
    /\ UNCHANGED locals

NextMain ==
    \/ MainCall
    \/ Fetch
    \/ Validate
    \/ Connect
    \/ InitTable
    \/ TransformStep
    \/ Save
    \/ Finally
    \/ MainReturn
    \/ MainExit

SpecMain == InitMain /\ [][NextMain]_vars

\* ================================================================ claims
Table == db[TableName(ent)]

\* the call under way got its response from the API and its storage worked
Undisturbed == ~faulted

HasNoId(item) == item.k = "obj" /\ "id" \notin DOMAIN item.fields

\* the response is an object whose array field is a non-empty array
GoodShape(e, resp) ==
    /\ resp.k = "obj"
    /\ ArrayField(e) \in DOMAIN resp.fields
    /\ resp.fields[ArrayField(e)].k = "arr"
    /\ Len(resp.fields[ArrayField(e)].items) > 0

\* the response without its records that have no identifier
WithoutIdless(e, resp) ==
    JObj(ArrayField(e) :>
           JArr(SelectSeq(resp.fields[ArrayField(e)].items,
                          LAMBDA item : ~HasNoId(item))))

\* rows and insert count of a call on `rows` that gets `resp` while the
\* network and the storage work
RunOn(e, resp, rows) ==
    IF ValidateResponse(e, resp) # "pass" THEN [rows |-> rows, inserted |-> 0]
    ELSE LET t == Transform(e, resp.fields[ArrayField(e)])
             r == SaveData(rows, t.data, FALSE)
         IN IF t.exc = "none" /\ r.exc = "none"
            THEN [rows |-> r.rows, inserted |-> r.ret]
            ELSE [rows |-> rows, inserted |-> 0]

\* C1: a second call of the processor against the response the first call
\* stored ends without an error and leaves exactly the rows of the first
\* call; no two rows share an identifier
C1_Idempotent ==
    /\ \A r1, r2 \in Table.rows : r1[1] = r2[1] => r1 = r2
    /\ (pc = "done" /\ prev.valid /\ Undisturbed) =>
          /\ outcome = "returned"
          /\ Table.rows = prev.rows

\* C2: the records without identifier are left out, the others are still
\* processed, and rows and insert count are those of the response with the
\* identifier-less records removed
C2_IdlessSkipped ==
    (pc = "done" /\ Undisturbed /\ GoodShape(ent, api_response)) =>
        LET without == RunOn(ent, WithoutIdless(ent, api_response), before)
        IN /\ Table.rows = without.rows
           /\ Cardinality(Table.rows) - Cardinality(before) = without.inserted
           /\ saved_count = without.inserted
           /\ save.called =>
                Len(data_to_save) =
                  Len(SelectSeq(records_list.items, LAMBDA item : ~HasNoId(item)))

C2_Witness ==
    /\ pc = "done" /\ Undisturbed /\ GoodShape(ent, api_response)
    /\ \E i \in 1..Len(records_list.items) : HasNoId(records_list.items[i])
    /\ Len(records_list.items) > Len(data_to_save)
    /\ saved_count > 0

\* C3: every call ends by returning to its caller, whatever the response
\* and whatever the storage does
C3_NeverRaises == pc = "done" => (outcome = "returned" /\ Len(log) > 1)

\* C4: a response that is no object with a non-empty array in the expected
\* field ends the call with a warning before any storage interaction
C4_ShortCircuit ==
    (pc = "done" /\ ~GoodShape(ent, api_response)) =>
        /\ outcome = "returned"
        /\ log[Len(log)] = "warning_no_data"
        /\ opened = 0 /\ conn = "none"
        /\ ~created
        /\ Table.rows = before

\* C5: the count save_data_to_db returns is the number of rows the call
\* added to the table; tuples whose key exists are not counted
C5_ReturnedCount ==
    (save.called /\ save.exc # "OverflowError") =>
        /\ saved_count = Cardinality(Table.rows) - Cardinality(before)
        /\ saved_count = Cardinality(PKs(Table.rows) \ PKs(before))

C5_Witness ==
    /\ save.called /\ save.exc = "none"
    /\ saved_count > 0
    /\ saved_count < Len(data_to_save)
    /\ before # {}

\* C6: a call of save_data_to_db that fails leaves the table as it was:
\* after a sqlite3.Error the call has rolled its transaction back, and what
\* an escaping exception leaves pending is discarded with the connection
C6_AllOrNothing ==
    (save.called /\ save.exc # "none") =>
        /\ Table.rows = before
        /\ save.exc = "sqlite3.Error" => tx = NoTx
        /\ pc = "done" => tx = NoTx

C6_Witness ==
    /\ save.called /\ save.exc = "sqlite3.Error" /\ save.partial > 0
    /\ pc = "done"
    /\ Table.rows = before

\* C7: init_db_table executes the CREATE statement only when the table is
\* not in the database file, at most once for the file; a call that finds
\* the table succeeds and changes nothing, so the rows are kept
C7_InitIdempotent ==
    [][/\ creates' <= 1
       /\ (pc = "init" /\ created') => (~Table.exists /\ Table'.exists)
       /\ (pc = "init" /\ Table.exists) =>
             /\ pc' = "transform"
             /\ db' = db
             /\ ~created' /\ creates' = creates]_vars

C7_Witness ==
    /\ pc = "transform" /\ calls > 0
    /\ ~created /\ creates = 1
    /\ Table.exists /\ Table.rows # {}

\* C8: a call opens at most one connection and no connection is open once
\* the call is over, however it ends
C8_ConnectionClosed ==
    /\ opened <= 1
    /\ conn = "open" => opened = 1
    /\ pc \in {"done", "idle"} => conn # "open"

C8_Witness ==
    /\ pc = "done" /\ outcome = "raised" /\ ~save.called
    /\ opened = 1 /\ conn = "closed"

\* the reactions value the processor is to store for a post
ExpectedReactions(post) ==
    IF "reactions" \notin DOMAIN post.fields THEN JNum(0)
    ELSE LET r == post.fields["reactions"]
             count(key) == IF key \in DOMAIN r.fields THEN r.fields[key].n ELSE 0
         IN IF r.k = "obj" THEN JNum(count("likes") + count("dislikes")) ELSE r

\* C9: the reactions column of a post is the sum of the breakdown object,
\* the number itself when reactions is a number, and 0 when it is absent
C9_Reactions ==
    (ent = "posts" /\ (pc = "save" \/ save.called)) =>
        LET withId == SelectSeq(records_list.items, LAMBDA item : ~HasNoId(item))
        IN /\ Len(data_to_save) = Len(withId)
           /\ \A i \in 1..Len(withId) :
                 data_to_save[i][3] = ExpectedReactions(withId[i])
           /\ \A row \in Table.rows \ before :
                 \E i \in 1..Len(data_to_save) :
                    /\ data_to_save[i][3] = row[3]
                    /\ data_to_save[i][1] \in {row[1], JNull}

C9_Witness ==
    /\ ent = "posts" /\ pc = "done" /\ saved_count = 2
    /\ <<JNum(1), JStr("a"), JNum(7)>> \in Table.rows \ before
    /\ <<JNum(2), JStr("a"), JNum(0)>> \in Table.rows \ before
    /\ \E i \in 1..Len(records_list.items) :
          records_list.items[i] =
            WithReactions(Rec("posts", JNum(1), "a"), Likes(5, 2))

\* C10: no step of a processor changes or removes a stored row or a table;
\* only main's --clean step, which deletes the database file, does
C10_RowsKept ==
    [][MainClean \/
       \A t \in Entities :
          /\ db[t].exists => db'[t].exists
          /\ db[t].rows \subseteq db'[t].rows
          /\ PKs(db[t].rows) \subseteq PKs(db'[t].rows)]_vars

C10_Witness ==
    /\ pc = "done" /\ save.called /\ save.exc = "none"
    /\ \E i \in 1..Len(data_to_save) :
          /\ data_to_save[i][1] = JNum(1)
          /\ data_to_save[i][2] = JStr("b")
    /\ \E row \in before : row[1] = JNum(1) /\ row[2] = JStr("a")
    /\ \E row \in Table.rows : row[1] = JNum(1) /\ row[2] = JStr("a")

\* the kinds of line that show a table's schema or its rows
DataLines ==
    {"table_title", "table_header", "schema", "data_header", "row",
     "info_table_empty", "total"}

\* C11: when the inspector is given the name of a table that is not in a
\* database that has at least one table, it prints the table-not-found
\* message with the list of the available tables, prints no schema and no
\* rows of any table, ends without an exception, and ends with an exit
\* status other than the one of a successful listing (0)
C11_TableNotFound ==
    (/\ view.pc = "exited" /\ ~view.faulted
     /\ fileExists /\ MasterTables # <<>>
     /\ view.given /\ ~TableExists(view.table_name))
    => /\ view.out = <<Line("error_table_not_found", view.table_name, <<>>),
                       Line("available_tables", "", MasterTables)>>
       /\ \A i \in 1..Len(view.out) : view.out[i].t \notin DataLines
       /\ view.exit # 0

InLog(tag) == \E i \in 1..Len(log) : log[i] = tag

\* C12: in one processor run the table is created before the batch is
\* inserted, on the same connection, and the insert is attempted only after
\* init_db_table reported success: the step that calls save_data_to_db
\* starts with the table present, the one connection open and the success
\* of the initialization logged, no later step of the run creates a table,
\* and a run whose initialization failed never calls save_data_to_db and
\* returns with the error logged
C12_CreateThenInsert ==
    [][/\ (~save.called /\ save'.called)
          => /\ Table.exists
             /\ conn = "open" /\ opened = 1
             /\ InLog("info_created") \/ InLog("info_exists")
             /\ ~InLog("error_init")
       /\ (save.called /\ pc' # "idle")
          => (creates' = creates /\ Table'.exists = Table.exists)
       /\ InLog("error_init")'
          => /\ ~save'.called
             /\ outcome' = "returned"]_vars

C12_Witness ==
    /\ pc = "done" /\ InLog("error_init")
    /\ ~save.called /\ outcome = "returned" /\ conn = "closed"
    /\ ValidateResponse(ent, api_response) = "pass"
    /\ Transform(ent, records_list).data # <<>>

IsPrefix(q, full) == Len(q) <= Len(full) /\ q = SubSeq(full, 1, Len(q))

\* C13: main runs the processors one after another in the order products,
\* users, posts, each to completion before the next is called, and a
\* failure in a processor (failed fetch, invalid response shape, storage
\* error) neither keeps the later processors from running nor ends the
\* process with an uncaught exception: the process ends only after all
\* three have run
C13_Pipeline ==
    run.status # "off"
    => /\ IsPrefix(run.started, PipelineOrder)
       /\ IsPrefix(run.finished, run.started)
       /\ Len(run.started) <= Len(run.finished) + 1
       /\ pc # "idle" => ent = run.started[Len(run.started)]
       /\ run.status # "crashed"
       /\ run.status = "exited" => run.finished = PipelineOrder

\* the positions of the batch's records that carry the identifier n
WithId(items, n) ==
    {i \in 1..Len(items) : items[i].k = "obj" /\ Get(items[i], "id") = JNum(n)}

FirstOf(S) == CHOOSE i \in S : \A j \in S : i <= j

\* C14: when a fetched batch holds two or more records with the same
\* identifier (one that was not stored before the run) and the batch is
\* saved, exactly one row with that identifier is stored, its column values
\* are those of the first such record of the batch, and the returned count
\* is the number of rows added, the later duplicates adding nothing to it
C14_FirstWins ==
    (/\ pc = "done" /\ Undisturbed /\ outcome = "returned"
     /\ save.called /\ save.exc = "none")
    => \A n \in 1..MaxId :
          (Cardinality(WithId(records_list.items, n)) >= 2
           /\ n \notin PKs(before))
          => /\ Cardinality({r \in Table.rows : r[1] = JNum(n)}) = 1
             /\ TupleOf(ent, records_list.items[
                    FirstOf(WithId(records_list.items, n))]).tuple
                  \in Table.rows
             /\ saved_count = Cardinality(Table.rows) - Cardinality(before)
             /\ saved_count <= Len(data_to_save)
                               - (Cardinality(WithId(records_list.items, n)) - 1)

\* C15: the table is created before the transform stage: from the moment
\* init_db_table has reported success (the response passed the shape check
\* and the connection was opened) the entity's table exists, in the
\* transform stage, in the save and when the processor ends, also when no
\* row is inserted, when every fetched record lacks an identifier and when
\* the transform loop raises part-way
C15_TableBeforeTransform ==
    (InLog("info_created") \/ InLog("info_exists"))
    => /\ Table.exists
       /\ pc \in {"transform", "save", "finally", "done"}
       /\ ValidateResponse(ent, api_response) = "pass"

C15_Witness ==
    /\ pc = "done" /\ created /\ outcome = "raised" /\ ~save.called
    /\ Table = EmptyTable
    /\ records_list.k = "arr" /\ Len(records_list.items) = 2
    /\ RecordStep(ent, records_list.items[1]).exc = "none"
    /\ ~RecordStep(ent, records_list.items[1]).skip

====
